---- MODULE Spec2Model ----
(***************************************************************************)
(* A model of the unstructured-ingest connector code: the FileData record  *)
(* and its JSON persistence, the Chroma uploader, the Outlook and MongoDB  *)
(* ingest documents, and the connectors' lazily created vendor clients.    *)
(***************************************************************************)
EXTENDS Integers, Sequences, FiniteSets, TLC

VARIABLES
    \* ---- FileData persistence (v2/interfaces/file_data.py)
    x,          \* the FileData instance held in memory
    disk,       \* what is at the path: <<>> (nothing) or <<content>>, the content being a
                \* JSON document, a directory or text that is not JSON
    loaded,     \* <<>> or <<the FileData returned by from_file>>
    via_dict,   \* <<>> or <<FileData.from_dict(x.to_dict())>>
    load_error, \* the exception of the last from_file call, "" when none
    \* ---- ChromaUploader (v2/processes/connectors/chroma.py)
    batch_size,     \* upload_config.batch_size
    chroma_config,  \* what connection_config sets: "path", "http" or "unset"
    run_contents,   \* the staged files the uploader is run on, a list of lists of records
    upsert_calls,   \* the collection.upsert calls of the last run, in order
    rejected_at,    \* the call of the last run that the destination rejected, 0 when none
    collection,     \* the entries of the destination collection, a list of records
    chroma_raised,  \* the exception the last precheck or run raised, "" when none
    chroma_clients, \* how many chromadb clients have been created
    chroma_op,      \* the last operation: "", "precheck" or "run"
    chroma_runs,    \* how many runs have returned
    \* ---- OutlookIngestDoc and MongoDBIngestDoc (connector/outlook.py, mongodb.py)
    re_download,     \* read_config.re_download: download even if the file exists
    local_file,      \* per Outlook doc, the file at download_filepath: "absent", "empty", "content"
    source_metadata, \* per Outlook doc, source_metadata.exists: "unset", "exists", "missing"
    downloads,       \* per Outlook doc, how many times _run_download was invoked
    get_file_calls,  \* per Outlook doc, how many times get_file was called
    get_file_result, \* per Outlook doc, what the caller of the last get_file saw
    hit_error,       \* per Outlook doc, whether the last get_file hit an error
    fetched,         \* per Outlook doc, whether the last get_file invoked _run_download
    created,         \* per Outlook doc, whether the last get_file opened the local file for writing
    mongo_document,  \* MongoDBIngestDoc.document: "None" or "doc"
    mongo_metadata,  \* MongoDBIngestDoc.source_metadata.exists: "unset", "exists", "missing"
    mongo_file,      \* the file at MongoDBIngestDoc.filename: "absent" or "content"
    mongo_result,    \* what the caller of the last MongoDBIngestDoc.get_file saw
    \* ---- the connectors and their vendor clients (connector/mongodb.py, outlook.py)
    connector,       \* the connector instance at work
    _client,         \* its _client field: 0 for None, else the handle
    factory_calls,   \* how many times its client property called the factory
    handles_seen,    \* the handles its client property has returned
    conn_raised,     \* the exception its last operation raised, "" when none
    conn_op,         \* the last operation on it or on one of its batches, "" when none yet
    serialized,      \* <<>> or <<the dict the last MongoDBDestinationConnector.to_dict returned>>
    mongo_written,   \* the documents in the destination collection, as inserted
    selected_folder_ids, \* OutlookSourceConnector.selected_folder_ids: "unset", "empty", "some"
    mongo_batch_size,    \* SimpleMongoDBConfig.batch_size
    ingest_batches,  \* the list_of_ids of the batches the last get_ingest_docs returned
    batch_clients,   \* how many clients MongoDBIngestDocBatch._get_docs has created
    batch_docs,      \* per batch, the document ids appended to its ingest_docs
    batch_files,     \* the document ids whose local file a batch has written
    doc_ids,         \* the document ids of the source collection, in listing order
    batch_result,    \* per batch, what the caller of its last get_files saw, "" when not called
    \* ---- connection and access configurations (mongodb.py, outlook.py, chroma.py, gcs.py)
    existing_files,  \* the paths that name a regular file
    config,          \* <<>> or <<the configuration object constructed last>>
    config_raised,   \* the exception the last construction raised, "" when none
    config_dict,     \* <<>> or <<the dict the last to_dict of the configuration returned>>
    gcs_key,         \* <<>> or <<the service_account_key given to GcsAccessConfig>>
    \* ---- ChromaUploadStager (v2/processes/connectors/chroma.py)
    elements_contents, \* the element records the elements file was written with
    stage_args,      \* the arguments of run: elements_filepath, output_dir, output_filename
    fs,              \* the files, a function from paths to contents
    stage_runs,      \* the runs so far: what each returned or raised, and what it wrote
    \* ---- worker units reading the client property of one connector at the same time
    pc,              \* per worker, where it is in the client property
    new_client,      \* per worker, the client its factory call returned, 0 when none
    got              \* per worker, the handle the property returned to it, 0 when none yet

fdVars == <<x, disk, loaded, via_dict, load_error>>
upVars == <<batch_size, chroma_config, run_contents, upsert_calls, rejected_at,
            collection, chroma_raised, chroma_clients, chroma_op, chroma_runs>>

dlVars == <<re_download, local_file, source_metadata, downloads, get_file_calls,
            get_file_result, hit_error, fetched, created,
            mongo_document, mongo_metadata, mongo_file, mongo_result>>

clVars == <<connector, _client, factory_calls, handles_seen, conn_raised, conn_op, serialized,
            mongo_written, selected_folder_ids, mongo_batch_size, ingest_batches,
            batch_clients, batch_docs, batch_files, doc_ids, batch_result>>

cfVars == <<existing_files, config, config_raised, config_dict, gcs_key>>

stVars == <<elements_contents, stage_args, fs, stage_runs>>

wkVars == <<pc, new_client, got>>

vars == <<fdVars, upVars, dlVars, clVars, cfVars, stVars, wkVars>>

notFd == <<upVars, dlVars, clVars, cfVars, stVars, wkVars>>
notUp == <<fdVars, dlVars, clVars, cfVars, stVars, wkVars>>
notDl == <<fdVars, upVars, clVars, cfVars, stVars, wkVars>>
notCl == <<fdVars, upVars, dlVars, cfVars, stVars, wkVars>>
notCf == <<fdVars, upVars, dlVars, clVars, stVars, wkVars>>
notSt == <<fdVars, upVars, dlVars, clVars, cfVars, wkVars>>

\* Optional[T]: None is <<>>, a value v is <<v>>.
None == <<>>
Some(v) == <<v>>

(***************************************************************************)
(* Python values of the fields typed Any.  A value is a scalar             *)
(* (NoneType, bool, int, str) or a list or tuple of scalars.               *)
(***************************************************************************)
MaxItems == 1

PyScalars ==
    { [t |-> "NoneType", s |-> "None"], [t |-> "bool", s |-> "True"],
      [t |-> "int", s |-> "1"], [t |-> "str", s |-> "1"] }

SeqsUpTo(S, n) == UNION { [1..k -> S] : k \in 0..n }

PyValues ==
    { [t |-> sc.t, s |-> sc.s, items |-> <<>>] : sc \in PyScalars }
    \cup { [t |-> c, s |-> "", items |-> it] :
             c \in {"list", "tuple"}, it \in SeqsUpTo(PyScalars, MaxItems) }

\* The values json can write and read back as themselves.
JsonNative(v) == v.t # "tuple"

(***************************************************************************)
(* json.dump and json.load on a value: a tuple is written as an array, and *)
(* an array is read back as a list.                                        *)
(***************************************************************************)
json_dump_scalar(sc) ==
    CASE sc.t = "NoneType" -> [j |-> "null", s |-> "null"]
      [] sc.t = "bool"     -> [j |-> "boolean", s |-> IF sc.s = "True" THEN "true" ELSE "false"]
      [] sc.t = "int"      -> [j |-> "number", s |-> sc.s]
      [] OTHER             -> [j |-> "string", s |-> sc.s]

json_load_scalar(js) ==
    CASE js.j = "null"    -> [t |-> "NoneType", s |-> "None"]
      [] js.j = "boolean" -> [t |-> "bool", s |-> IF js.s = "true" THEN "True" ELSE "False"]
      [] js.j = "number"  -> [t |-> "int", s |-> js.s]
      [] OTHER            -> [t |-> "str", s |-> js.s]

json_dump_value(v) ==
    IF v.t \in {"list", "tuple"}
    THEN [j |-> "array", s |-> "", items |-> [i \in DOMAIN v.items |-> json_dump_scalar(v.items[i])]]
    ELSE LET js == json_dump_scalar([t |-> v.t, s |-> v.s])
         IN  [j |-> js.j, s |-> js.s, items |-> <<>>]

json_load_value(jv) ==
    IF jv.j = "array"
    THEN [t |-> "list", s |-> "", items |-> [i \in DOMAIN jv.items |-> json_load_scalar(jv.items[i])]]
    ELSE LET sc == json_load_scalar([j |-> jv.j, s |-> jv.s])
         IN  [t |-> sc.t, s |-> sc.s, items |-> <<>>]

\* dataclasses_json's to_dict copies every collection that is not a mapping
\* or a string into a list.
asdict_value(v) ==
    IF v.t = "tuple" THEN [t |-> "list", s |-> v.s, items |-> v.items] ELSE v

(***************************************************************************)
(* The FileData dataclass and the dataclasses it holds.  cls tells a       *)
(* dataclass instance from the plain dict that to_dict makes of it.        *)
(***************************************************************************)
Identifiers == {"id1", "id2"}
ConnectorTypes == {"mongodb", "chroma"}
Paths == {"docs/a.txt"}
MetaKeys == {"k"}
FileSizes == {10}

SourceIdentifiers(filename, fullpath, rel_path) ==
    [cls |-> "SourceIdentifiers", filename |-> filename, fullpath |-> fullpath,
     rel_path |-> rel_path]

FileDataSourceMetadata(filesize_bytes) ==
    [cls |-> "FileDataSourceMetadata", filesize_bytes |-> filesize_bytes]

FileData(identifier, connector_type, source_identifiers, doc_type, metadata, additional_metadata, reprocess) ==
    [cls |-> "FileData", identifier |-> identifier, connector_type |-> connector_type,
     source_identifiers |-> source_identifiers, doc_type |-> doc_type,
     metadata |-> metadata, additional_metadata |-> additional_metadata,
     reprocess |-> reprocess]

SourceIdentifiersValues ==
    { SourceIdentifiers("a.txt", p, r) : p \in Paths, r \in {None} \cup {Some(q) : q \in {"a.txt"}} }

FileDataValues ==
    { FileData(i, c, si, dt, FileDataSourceMetadata(sz), am, rp) :
        i \in Identifiers, c \in ConnectorTypes,
        si \in {None} \cup {Some(v) : v \in SourceIdentifiersValues},
        dt \in {"file", "batch"},
        sz \in {None} \cup {Some(n) : n \in FileSizes},
        am \in UNION { [D -> PyValues] : D \in SUBSET MetaKeys },
        rp \in BOOLEAN }

\* DataClassJsonMixin.to_dict: nested dataclasses become dicts, field by field.
AsDict(dc) == [dc EXCEPT !.cls = "dict"]

FileData_to_dict(fd) ==
    [cls |-> "dict", identifier |-> fd.identifier, connector_type |-> fd.connector_type,
     source_identifiers |->
        IF fd.source_identifiers = None THEN None ELSE Some(AsDict(fd.source_identifiers[1])),
     doc_type |-> fd.doc_type,
     metadata |-> AsDict(fd.metadata),
     additional_metadata |->
        [k \in DOMAIN fd.additional_metadata |-> asdict_value(fd.additional_metadata[k])],
     reprocess |-> fd.reprocess]

\* DataClassJsonMixin.from_dict: every field is rebuilt as its declared type.
FileData_from_dict(d) ==
    FileData(d.identifier, d.connector_type,
             IF d.source_identifiers = None THEN None
             ELSE Some(SourceIdentifiers(d.source_identifiers[1].filename,
                                         d.source_identifiers[1].fullpath,
                                         d.source_identifiers[1].rel_path)),
             d.doc_type,
             FileDataSourceMetadata(d.metadata.filesize_bytes),
             d.additional_metadata,
             d.reprocess)

\* json.dump(self.to_dict(), f, indent=2): the document written to the file.
json_dump(d) ==
    [d EXCEPT !.cls = "object",
              !.source_identifiers =
                  IF @ = None THEN None ELSE Some([@[1] EXCEPT !.cls = "object"]),
              !.metadata = [@ EXCEPT !.cls = "object"],
              !.additional_metadata = [k \in DOMAIN @ |-> json_dump_value(@[k])]]

\* json.load(f): objects are read as dicts, arrays as lists.
json_load(doc) ==
    [doc EXCEPT !.cls = "dict",
                !.source_identifiers =
                    IF @ = None THEN None ELSE Some([@[1] EXCEPT !.cls = "dict"]),
                !.metadata = [@ EXCEPT !.cls = "dict"],
                !.additional_metadata = [k \in DOMAIN @ |-> json_load_value(@[k])]]

(***************************************************************************)
(* The connection configurations and their access configurations:          *)
(* SimpleMongoDBConfig, SimpleOutlookConfig, ChromaConnectionConfig and    *)
(* GcsConnectionConfig.  A secret is one of two values, so that two        *)
(* configurations can differ in their secrets only.                        *)
(***************************************************************************)
Secrets == {"secret1", "secret2"}
Hosts == {"localhost", "db.example.com"}

MongoDBAccessConfig(uri) == [cls |-> "MongoDBAccessConfig", uri |-> uri]

SimpleMongoDBConfig(access_config, host) ==
    [cls |-> "SimpleMongoDBConfig", access_config |-> access_config, host |-> host,
     database |-> None, collection |-> None, port |-> 27017]

OutlookAccessConfig(client_credential) ==
    [cls |-> "OutlookAccessConfig", client_credential |-> client_credential]

SimpleOutlookConfig(access_config, user_email, client_id) ==
    [cls |-> "SimpleOutlookConfig", access_config |-> access_config,
     user_email |-> user_email, client_id |-> client_id, tenant |-> "common",
     recursive |-> FALSE, registry_name |-> "outlook"]

\* SimpleOutlookConfig.__post_init__: the exception it raises, "" when none.
SimpleOutlookConfig_post_init(cfg) ==
    IF cfg.client_id # "" /\ cfg.access_config.client_credential # "" /\ cfg.user_email # ""
    THEN "" ELSE "ValueError"

ChromaAccessConfig(settings, headers) ==
    [cls |-> "ChromaAccessConfig", settings |-> settings, headers |-> headers]

ChromaConnectionConfig(collection_name, access_config, host) ==
    [cls |-> "ChromaConnectionConfig", collection_name |-> collection_name,
     access_config |-> access_config, path |-> None, tenant |-> "default_tenant",
     database |-> "default_database", host |-> host, port |-> None, ssl |-> FALSE,
     connector_type |-> "chroma"]

(***************************************************************************)
(* GcsAccessConfig: token is resolved from service_account_key when the    *)
(* object is constructed.  The keys tried: None, the empty string, the     *)
(* five auth constants, strings that parse as a JSON object, a string that *)
(* parses as JSON but not as an object, and file names.                    *)
(***************************************************************************)
ALLOWED_AUTH_VALUES == {"google_default", "cache", "anon", "browser", "cloud"}

JsonObjectKeys == {"{\"private_key\": \"secret1\"}", "{\"private_key\": \"secret2\"}"}
JsonOtherKeys == {"[1]"}
KeyPaths == {"key.json", "other.json"}

ServiceAccountKeys ==
    {None} \cup { Some(k) : k \in {""} \cup ALLOWED_AUTH_VALUES \cup JsonObjectKeys
                                  \cup JsonOtherKeys \cup KeyPaths }

\* The paths that may name a regular file: a key file, and files that bear
\* the name of an auth constant, of a JSON object or of a JSON list.
FilePaths == {"key.json", "anon", "{\"private_key\": \"secret1\"}", "[1]"}

\* utils.string_and_date_utils.json_to_dict: the parsed value when the string
\* parses as JSON, the string itself otherwise.
json_to_dict(json_string) ==
    IF json_string \in JsonObjectKeys THEN [t |-> "dict", of |-> json_string]
    ELSE IF json_string \in JsonOtherKeys THEN [t |-> "list", of |-> json_string]
    ELSE [t |-> "str", of |-> json_string]

\* The token that is the string itself.
StrToken(key) == [t |-> "str", of |-> key]

\* A __post_init__ that looks for the file before it tries the key as JSON.
post_init_path_first(service_account_key, files) ==
    IF service_account_key = None \/ service_account_key[1] = ""
    THEN [raised |-> "", token |-> None]
    ELSE LET key == service_account_key[1]
         IN  IF key \in ALLOWED_AUTH_VALUES
             THEN [raised |-> "", token |-> Some(StrToken(key))]
             ELSE IF key \in files
             THEN [raised |-> "", token |-> Some(StrToken(key))]
             ELSE IF json_to_dict(key).t = "dict"
             THEN [raised |-> "", token |-> Some(json_to_dict(key))]
             ELSE [raised |-> "ValueError", token |-> None]

\* GcsAccessConfig.__post_init__ on service_account_key, files being the
\* paths that name a regular file: the exception raised and the token set.
GcsAccessConfig_post_init(service_account_key, files) ==
    IF service_account_key = None \/ service_account_key[1] = ""
    THEN [raised |-> "", token |-> None]
    ELSE LET key == service_account_key[1]
         IN  IF key \in ALLOWED_AUTH_VALUES
             THEN [raised |-> "", token |-> Some(StrToken(key))]
             ELSE IF json_to_dict(key).t = "dict"
             THEN [raised |-> "", token |-> Some(json_to_dict(key))]
             ELSE IF key \in files
             THEN [raised |-> "", token |-> Some(StrToken(key))]
             ELSE [raised |-> "ValueError", token |-> None]

GcsAccessConfig(service_account_key, token) ==
    [cls |-> "GcsAccessConfig", service_account_key |-> service_account_key, token |-> token]

GcsConnectionConfig(access_config) ==
    [cls |-> "GcsConnectionConfig", supported_protocols |-> <<"gs", "gcs">>,
     access_config |-> access_config, connector_type |-> "gcs"]

(***************************************************************************)
(* Serialization of a configuration or connector object.  The fields that  *)
(* the classes mark sensitive=True, the field given an overload_name, and  *)
(* the fields that hold a dataclass.                                       *)
(***************************************************************************)
\* A marking in which MongoDBAccessConfig.uri is a plain field.
SensitiveFields_uri_plain(cls) ==
    CASE cls = "OutlookAccessConfig"    -> {"client_credential"}
      [] cls = "ChromaConnectionConfig" -> {"access_config"}
      [] cls = "GcsConnectionConfig"    -> {"access_config"}
      [] OTHER                          -> {}

SensitiveFields(cls) ==
    CASE cls = "MongoDBAccessConfig"    -> {"uri"}
      [] cls = "OutlookAccessConfig"    -> {"client_credential"}
      [] cls = "ChromaConnectionConfig" -> {"access_config"}
      [] cls = "GcsConnectionConfig"    -> {"access_config"}
      [] OTHER                          -> {}

OverloadName(cls, f) ==
    IF cls = "OutlookAccessConfig" /\ f = "client_credential" THEN "client_cred" ELSE f

DataclassFields == {"access_config", "connector_config"}

REDACTED == "***REDACTED***"

ToDictKwargs == [apply_name_overload : BOOLEAN]

\* enhanced_dataclass.core._asdict, which to_dict of every configuration
\* calls: the dict of the object's fields, dataclasses within it converted
\* likewise, the value of a sensitive field replaced by the redaction text.
RECURSIVE _asdict(_, _)
_asdict(obj, kwargs) ==
    LET fields == (DOMAIN obj) \ {"cls"}
        name(f) == IF kwargs.apply_name_overload THEN OverloadName(obj.cls, f) ELSE f
        value(f) == IF f \in SensitiveFields(obj.cls) THEN REDACTED
                    ELSE IF f \in DataclassFields THEN _asdict(obj[f], kwargs)
                    ELSE obj[f]
    IN  [n \in {"cls"} \cup { name(f) : f \in fields } |->
            IF n = "cls" THEN "dict" ELSE value(CHOOSE f \in fields : name(f) = n)]

\* No worker at work.
NumWorkers == 2
Workers == 1..NumWorkers

WorkersIdle ==
    /\ pc = [w \in Workers |-> "idle"]
    /\ new_client = [w \in Workers |-> 0]
    /\ got = [w \in Workers |-> 0]

\* No stager at work.
StagerIdle ==
    /\ elements_contents = <<>>
    /\ stage_args = [elements_filepath |-> "work/elements.json", output_dir |-> "staged",
                     output_filename |-> "abc"]
    /\ fs = <<>>
    /\ stage_runs = <<>>

\* No configuration at work: the connector's configuration as constructed.
ConfigIdle ==
    /\ existing_files = {}
    /\ config = Some(SimpleMongoDBConfig(MongoDBAccessConfig(None), Some("localhost")))
    /\ config_raised = ""
    /\ config_dict = None
    /\ gcs_key = None

\* No uploader at work: the state of its variables in a run of another part.
UploadIdle ==
    /\ batch_size = 1
    /\ chroma_config = "unset"
    /\ run_contents = <<>>
    /\ upsert_calls = <<>>
    /\ rejected_at = 0
    /\ collection = <<>>
    /\ chroma_raised = ""
    /\ chroma_clients = 0
    /\ chroma_op = ""
    /\ chroma_runs = 0

\* No connector at work.
Connectors == {"mongodb_source", "mongodb_destination", "outlook_source"}

ConnectorAt(c) ==
    /\ connector = c
    /\ _client = 0
    /\ factory_calls = 0
    /\ handles_seen = {}
    /\ conn_raised = ""
    /\ conn_op = ""
    /\ serialized = None
    /\ mongo_written = <<>>
    /\ selected_folder_ids = "unset"
    /\ mongo_batch_size = 1
    /\ ingest_batches = <<>>
    /\ batch_clients = 0
    /\ batch_docs = <<>>
    /\ batch_files = {}
    /\ doc_ids = <<>>
    /\ batch_result = <<>>

ConnectorIdle == ConnectorAt("mongodb_source")

\* No ingest doc at work.
NumDocs == 2
Docs == 1..NumDocs

DownloadIdle ==
    /\ re_download = FALSE
    /\ local_file = [u \in Docs |-> "absent"]
    /\ source_metadata = [u \in Docs |-> "unset"]
    /\ downloads = [u \in Docs |-> 0]
    /\ get_file_calls = [u \in Docs |-> 0]
    /\ get_file_result = [u \in Docs |-> ""]
    /\ hit_error = [u \in Docs |-> FALSE]
    /\ fetched = [u \in Docs |-> FALSE]
    /\ created = [u \in Docs |-> FALSE]
    /\ mongo_document = "doc"
    /\ mongo_metadata = "unset"
    /\ mongo_file = "absent"
    /\ mongo_result = ""

\* No FileData at work.
FileDataIdle ==
    /\ x = FileData("id1", "chroma", None, "file", FileDataSourceMetadata(None), <<>>, FALSE)
    /\ disk = None
    /\ loaded = None
    /\ via_dict = None
    /\ load_error = ""

(***************************************************************************)
(* What from_file can find at the path besides a document that to_file     *)
(* wrote: nothing, a directory, text that is not JSON, or a JSON object    *)
(* lacking required keys.                                                  *)
(***************************************************************************)
Directory == [cls |-> "directory"]
Malformed == [cls |-> "malformed"]

RequiredKeys == {"identifier", "connector_type"}

Without(doc, keys) == [k \in (DOMAIN doc) \ keys |-> doc[k]]

DiskInputs(fd) ==
    {None, Some(Directory), Some(Malformed)}
    \cup { Some(Without(json_dump(FileData_to_dict(fd)), keys)) :
              keys \in (SUBSET RequiredKeys) \ {{}} }

\* The exception classes from_file can raise and their base classes:
\* json.JSONDecodeError derives from ValueError, KeyError from LookupError.
Bases(exc) ==
    CASE exc = "JSONDecodeError" -> {"JSONDecodeError", "ValueError", "Exception"}
      [] exc = "ValueError"      -> {"ValueError", "Exception"}
      [] exc = "KeyError"        -> {"KeyError", "LookupError", "Exception"}
      [] OTHER                   -> {"Exception"}

\* json.load(f) on the content of the file: the exception it raises, "" when none.
json_load_raises(content) == IF content = Malformed THEN "JSONDecodeError" ELSE ""

\* FileData.from_dict(d) reads every field without a default by d[name]:
\* the exception it raises, "" when none.
from_dict_raises(d) == IF RequiredKeys \subseteq DOMAIN d THEN "" ELSE "KeyError"

\* The exception of from_file on what is at the path, "" when it returns.
from_file_raises ==
    IF disk = None \/ disk[1] = Directory THEN "ValueError"
    ELSE IF json_load_raises(disk[1]) # "" THEN json_load_raises(disk[1])
    ELSE from_dict_raises(disk[1])

(***************************************************************************)
(* FileData.to_file and FileData.from_file                                 *)
(***************************************************************************)
to_file ==
    /\ disk' = IF disk = Some(Directory) THEN disk  \* open(path, "w") raises
               ELSE Some(json_dump(FileData_to_dict(x)))
    /\ UNCHANGED <<x, loaded, via_dict, load_error>>
    /\ UNCHANGED notFd

\* A from_file that keeps only the required keys and leaves the rest at
\* their defaults.
from_file_defaults ==
    /\ IF from_file_raises # ""
       THEN /\ load_error' = from_file_raises
            /\ UNCHANGED loaded
       ELSE /\ loaded' = Some(FileData(disk[1].identifier, disk[1].connector_type, None,
                                       "file", FileDataSourceMetadata(None), <<>>, FALSE))
            /\ load_error' = ""
    /\ UNCHANGED <<x, disk, via_dict>>
    /\ UNCHANGED notFd

from_file ==
    /\ IF from_file_raises # ""
       THEN /\ load_error' = from_file_raises
            /\ UNCHANGED loaded
       ELSE /\ loaded' = Some(FileData_from_dict(json_load(disk[1])))
            /\ load_error' = ""
    /\ UNCHANGED <<x, disk, via_dict>>
    /\ UNCHANGED notFd

\* FileData.from_dict(x.to_dict()), with no file in between.
dict_round_trip ==
    /\ via_dict' = Some(FileData_from_dict(FileData_to_dict(x)))
    /\ UNCHANGED <<x, disk, loaded, load_error>>
    /\ UNCHANGED notFd

FileDataInit ==
    /\ x \in FileDataValues
    /\ disk \in DiskInputs(x)
    /\ loaded = None
    /\ via_dict = None
    /\ load_error = ""
    /\ UploadIdle
    /\ DownloadIdle
    /\ ConnectorIdle
    /\ ConfigIdle
    /\ StagerIdle
    /\ WorkersIdle

FileDataNext == to_file \/ from_file \/ dict_round_trip

FileDataSpec == FileDataInit /\ [][FileDataNext]_vars

(***************************************************************************)
(* C1 (as stated): for every FileData x, to_file followed by from_file     *)
(* returns a FileData equal to x, and from_dict(to_dict(x)) equals x.      *)
(***************************************************************************)
C1_RoundTripAnyValue ==
    /\ loaded # None => loaded[1] = x
    /\ via_dict # None => via_dict[1] = x

AllJsonNative(fd) ==
    \A k \in DOMAIN fd.additional_metadata : JsonNative(fd.additional_metadata[k])

(***************************************************************************)
(* C1 (amended): for every FileData x whose additional_metadata holds only *)
(* values JSON has a form for (None, bool, int, str, list), to_file        *)
(* followed by from_file returns a FileData equal to x, and                *)
(* from_dict(to_dict(x)) equals x.                                         *)
(***************************************************************************)
C1_RoundTrip ==
    AllJsonNative(x) =>
        /\ loaded # None => loaded[1] = x
        /\ via_dict # None => via_dict[1] = x

\* A FileData with source identifiers, a file size, the reprocess flag and a
\* non-empty list in additional_metadata has been written, read back and
\* taken through to_dict and from_dict.
C1_Witness ==
    /\ loaded # None /\ via_dict # None
    /\ x.source_identifiers # None /\ x.metadata.filesize_bytes # None
    /\ x.reprocess /\ x.doc_type = "batch"
    /\ \E k \in DOMAIN x.additional_metadata :
          x.additional_metadata[k].t = "list" /\ Len(x.additional_metadata[k].items) > 0

(***************************************************************************)
(* C11: from_file fails with ValueError (the class or a subclass of it)    *)
(* whenever nothing or no regular file is at the path, the content is not  *)
(* well-formed JSON, or the JSON document lacks identifier or              *)
(* connector_type; it never returns a FileData filled with defaults.       *)
(***************************************************************************)
C11_LoadFailsWithValueError ==
    /\ load_error # "" => "ValueError" \in Bases(load_error)
    /\ loaded # None => from_file_raises = ""

(***************************************************************************)
(* ChromaUploader: precheck, create_client, upsert_batch,                  *)
(* prepare_chroma_list and run                                             *)
(***************************************************************************)
MaxFiles == 2
MaxRecs == 2
MaxBatchSize == 2
MaxClients == 2

\* A staged record, as ChromaUploadStager.conform_dict shapes it.
Record(i) ==
    [id |-> i, document |-> <<"text", i>>, embedding |-> <<"vec", i>>,
     metadata |-> <<"meta", i>>]

RECURSIVE Sum(_)
Sum(lens) == IF lens = <<>> THEN 0 ELSE Head(lens) + Sum(Tail(lens))

\* Staged files of the given lengths; the records are numbered in staged order.
StagedContents(lens) ==
    [j \in DOMAIN lens |->
        [i \in 1..lens[j] |-> Record(Sum(SubSeq(lens, 1, j - 1)) + i)]]

ContentsValues == { StagedContents(l) : l \in SeqsUpTo(0..MaxRecs, MaxFiles) }

Min(a, b) == IF a < b THEN a ELSE b

Range(f) == { f[i] : i \in DOMAIN f }

\* A run that keeps only the last staged file (elements_dict = elements).
run_elements_dict_last(contents) ==
    IF contents = <<>> THEN <<>> ELSE contents[Len(contents)]

\* run, lines 182-186: the records of every staged file, in the order of contents.
RECURSIVE run_elements_dict(_)
run_elements_dict(contents) ==
    IF contents = <<>> THEN <<>>
    ELSE Head(contents) \o run_elements_dict(Tail(contents))

\* utils.data_prep.batch_generator: consecutive chunks of at most n items.
RECURSIVE batch_generator(_, _)
batch_generator(iterable, n) ==
    IF iterable = <<>> THEN <<>>
    ELSE <<SubSeq(iterable, 1, Min(n, Len(iterable)))>>
            \o batch_generator(SubSeq(iterable, n + 1, Len(iterable)), n)

prepare_chroma_list(chunk) ==
    [ids        |-> [i \in DOMAIN chunk |-> chunk[i].id],
     documents  |-> [i \in DOMAIN chunk |-> chunk[i].document],
     embeddings |-> [i \in DOMAIN chunk |-> chunk[i].embedding],
     metadatas  |-> [i \in DOMAIN chunk |-> chunk[i].metadata]]

\* The records a batch carries, put together again from its parallel lists.
BatchRecords(batch) ==
    [i \in DOMAIN batch.ids |->
        [id |-> batch.ids[i], document |-> batch.documents[i],
         embedding |-> batch.embeddings[i], metadata |-> batch.metadatas[i]]]

\* An upsert that adds an entry whether or not the id has one.
upsert_record_add(coll, r) == Append(coll, r)

\* The collection after the upsert of one record: the entry of that id is
\* replaced, and a record whose id has no entry is added.
upsert_record(coll, r) ==
    IF \E i \in DOMAIN coll : coll[i].id = r.id
    THEN [i \in DOMAIN coll |-> IF coll[i].id = r.id THEN r ELSE coll[i]]
    ELSE Append(coll, r)

RECURSIVE upsert_records(_, _)
upsert_records(coll, records) ==
    IF records = <<>> THEN coll
    ELSE upsert_records(upsert_record(coll, Head(records)), Tail(records))

\* chromadb's collection.upsert(**batch): insert, or replace the record of
\* the same id.
collection_upsert(coll, batch) == upsert_records(coll, BatchRecords(batch))

\* error.py's <Error>.wrap: an exception that is not already of class cls
\* leaves the wrapped function as cls.
wrap(cls, exc) == IF exc = "" THEN "" ELSE cls

\* upsert_batch: the collection after the call and the exception it raises.
upsert_batch(coll, batch, accepted) ==
    IF accepted
    THEN [collection |-> collection_upsert(coll, batch), raised |-> ""]
    ELSE [collection |-> coll, raised |-> wrap("DestinationConnectionError", "ValueError")]

\* create_client: the exception it raises, "" when it returns a client.
create_client(client_ok) ==
    IF chroma_config = "unset" THEN "ValueError"
    ELSE IF client_ok THEN "" ELSE "Exception"

\* run, lines 196-197: one upsert_batch per chunk; the first exception ends the loop.
RECURSIVE run_loop(_, _, _, _)
run_loop(coll, chunks, k, reject_at) ==
    IF k > Len(chunks)
    THEN [collection |-> coll, calls |-> <<>>, raised |-> ""]
    ELSE LET batch == prepare_chroma_list(chunks[k])
             res == upsert_batch(coll, batch, k # reject_at)
         IN  IF res.raised # ""
             THEN [collection |-> res.collection, calls |-> <<batch>>, raised |-> res.raised]
             ELSE LET rest == run_loop(res.collection, chunks, k + 1, reject_at)
                  IN  [collection |-> rest.collection, calls |-> <<batch>> \o rest.calls,
                       raised |-> rest.raised]

ChromaUploader_precheck ==
    /\ chroma_clients < MaxClients
    /\ \E client_ok \in BOOLEAN :
          LET exc == create_client(client_ok)
          IN  /\ chroma_clients' = IF exc = "" THEN chroma_clients + 1 ELSE chroma_clients
              /\ chroma_raised' = wrap("DestinationConnectionError", exc)
    /\ chroma_op' = "precheck"
    /\ UNCHANGED <<batch_size, chroma_config, run_contents, upsert_calls, rejected_at,
                   collection, chroma_runs>>
    /\ UNCHANGED notUp

ChromaUploader_run ==
    /\ chroma_clients < MaxClients
    /\ \E client_ok \in BOOLEAN, collection_ok \in BOOLEAN :
          LET contents == run_contents
              elements_dict == run_elements_dict(contents)
              chunks == batch_generator(elements_dict, batch_size)
              exc == create_client(client_ok)
          IN  \E reject_at \in 0..Len(chunks) :
                 /\ chroma_clients' = IF exc = "" THEN chroma_clients + 1 ELSE chroma_clients
                 /\ IF exc # "" \/ ~collection_ok
                    THEN /\ chroma_raised' = IF exc # "" THEN exc ELSE "Exception"
                         /\ upsert_calls' = <<>>
                         /\ rejected_at' = 0
                         /\ UNCHANGED <<collection, chroma_runs>>
                    ELSE LET res == run_loop(collection, chunks, 1, reject_at)
                         IN  /\ chroma_raised' = res.raised
                             /\ upsert_calls' = res.calls
                             /\ rejected_at' = reject_at
                             /\ collection' = res.collection
                             /\ chroma_runs' = IF res.raised = "" THEN chroma_runs + 1
                                               ELSE chroma_runs
    /\ chroma_op' = "run"
    /\ UNCHANGED <<batch_size, chroma_config, run_contents>>
    /\ UNCHANGED notUp

UploadInit ==
    /\ batch_size \in 1..MaxBatchSize
    /\ chroma_config \in {"path", "http", "unset"}
    /\ run_contents \in ContentsValues
    /\ upsert_calls = <<>>
    /\ rejected_at = 0
    /\ collection = <<>>
    /\ chroma_raised = ""
    /\ chroma_clients = 0
    /\ chroma_op = ""
    /\ chroma_runs = 0
    /\ FileDataIdle
    /\ DownloadIdle
    /\ ConnectorIdle
    /\ ConfigIdle
    /\ StagerIdle
    /\ WorkersIdle

UploadNext == ChromaUploader_precheck \/ ChromaUploader_run

UploadSpec == UploadInit /\ [][UploadNext]_vars

\* The staged records of the last run: how many, and the one at a position.
StagedCount == Sum([j \in DOMAIN run_contents |-> Len(run_contents[j])])

Offset(j) == Sum([k \in 1..(j - 1) |-> Len(run_contents[k])])

CeilDiv(n, b) == (n + b - 1) \div b

\* The record that the upsert calls, taken in order, carry at position p.
UpsertedAt(p) ==
    BatchRecords(upsert_calls[((p - 1) \div batch_size) + 1])[((p - 1) % batch_size) + 1]

(***************************************************************************)
(* C2: a run that returns has issued exactly ceil(N/B) upsert calls for    *)
(* the N staged records and batch size B; every call but the last carries  *)
(* B records, the last carries N - B*(ceil(N/B)-1), and the calls in order *)
(* carry every staged record exactly once, in staged order.                *)
(***************************************************************************)
C2_Batching ==
    (chroma_op = "run" /\ chroma_raised = "") =>
        LET N == StagedCount
            B == batch_size
            calls == CeilDiv(N, B)
        IN  /\ Len(upsert_calls) = calls
            /\ \A k \in 1..(calls - 1) : Len(upsert_calls[k].ids) = B
            /\ calls > 0 => Len(upsert_calls[calls].ids) = N - B * (calls - 1)
            /\ \A k \in 1..calls :
                  /\ Len(upsert_calls[k].documents) = Len(upsert_calls[k].ids)
                  /\ Len(upsert_calls[k].embeddings) = Len(upsert_calls[k].ids)
                  /\ Len(upsert_calls[k].metadatas) = Len(upsert_calls[k].ids)
            /\ \A j \in DOMAIN run_contents : \A i \in DOMAIN run_contents[j] :
                  UpsertedAt(Offset(j) + i) = run_contents[j][i]

\* Two non-empty staged files of three records in all went out in batches of
\* two: two calls, of 2 and 1 records.
C2_Witness ==
    /\ chroma_op = "run" /\ chroma_raised = ""
    /\ Len(run_contents) = 2 /\ Len(run_contents[1]) = 1 /\ Len(run_contents[2]) = 2
    /\ batch_size = 2
    /\ Len(upsert_calls) = 2
    /\ Len(upsert_calls[2].ids) = 1

(***************************************************************************)
(* C3: when the destination rejects one batch of a run, the failure is     *)
(* raised as WriteError and aborts only that batch: the batches before it  *)
(* stay written and the batches after it are still sent and written.       *)
(***************************************************************************)
C3_BatchFailureIsolated ==
    (chroma_op = "run" /\ rejected_at > 0) =>
        LET chunks == batch_generator(run_elements_dict(run_contents), batch_size)
        IN  /\ chroma_raised = "WriteError"
            /\ Len(upsert_calls) = Len(chunks)
            /\ \A k \in DOMAIN chunks :
                  k # rejected_at => Range(chunks[k]) \subseteq Range(collection)

(***************************************************************************)
(* OutlookIngestDoc.update_source_metadata, _run_download and get_file;    *)
(* MongoDBIngestDoc.update_source_metadata and get_file                    *)
(***************************************************************************)
MaxCalls == 2

\* BaseSingleIngestDoc.skip_if_file_exists: the decorated function is skipped
\* when re-download is off and the file exists.
skip_if_file_exists(redownload, file_exists) == ~redownload /\ file_exists

\* OutlookIngestDoc.update_source_metadata on the outcome of the message
\* query: the exists flag it sets ("" when it sets none) and what it raises.
Outlook_update_source_metadata(meta) ==
    CASE meta = "ok"  -> [exists |-> "exists", raised |-> ""]
      [] meta = "404" -> [exists |-> "missing", raised |-> ""]
      [] OTHER        -> [exists |-> "", raised |-> "ClientRequestException"]

\* _run_download: what leaves it when the message download succeeds or fails.
run_download(dl) ==
    wrap("SourceConnectionNetworkError", IF dl = "ok" THEN "" ELSE "ClientRequestException")

\* get_file, lines 179-184: the except clause logs the exception and returns.
get_file_except(exc) == ""

\* The body of get_file, lines 163-186, on the outcomes of the message query
\* and of the download.
get_file_body(file, meta, dl) ==
    LET md == Outlook_update_source_metadata(meta)
    IN  IF md.raised # ""
        THEN [exists |-> md.exists, file |-> file, created |-> FALSE, fetched |-> FALSE,
              error |-> md.raised, raised |-> get_file_except(md.raised)]
        ELSE LET exc == run_download(dl)
             IN  [exists |-> md.exists,
                  file |-> IF exc = "" THEN "content" ELSE "empty",
                  created |-> TRUE, fetched |-> TRUE,
                  error |-> exc, raised |-> get_file_except(exc)]

\* get_file as declared, without the skip_if_file_exists decorator.
get_file_skipped_never(u) == FALSE

\* Whether the decorators of get_file (lines 158-159) skip the body.
get_file_skipped(u) == skip_if_file_exists(re_download, local_file[u] # "absent")

OutlookIngestDoc_get_file(u) ==
    /\ get_file_calls[u] < MaxCalls
    /\ get_file_calls' = [get_file_calls EXCEPT ![u] = @ + 1]
    /\ IF get_file_skipped(u)
       THEN /\ get_file_result' = [get_file_result EXCEPT ![u] = "returned"]
            /\ hit_error' = [hit_error EXCEPT ![u] = FALSE]
            /\ fetched' = [fetched EXCEPT ![u] = FALSE]
            /\ created' = [created EXCEPT ![u] = FALSE]
            /\ UNCHANGED <<local_file, source_metadata, downloads>>
       ELSE \E meta \in {"ok", "404", "error"}, dl \in {"ok", "error"} :
               /\ meta = "404" => dl = "error"
               /\ LET r == get_file_body(local_file[u], meta, dl)
                      out == wrap("SourceConnectionError", r.raised)
                  IN  /\ local_file' = [local_file EXCEPT ![u] = r.file]
                      /\ source_metadata' =
                            [source_metadata EXCEPT ![u] = IF r.exists = "" THEN @ ELSE r.exists]
                      /\ downloads' = [downloads EXCEPT ![u] = IF r.fetched THEN @ + 1 ELSE @]
                      /\ hit_error' = [hit_error EXCEPT ![u] = r.error # ""]
                      /\ fetched' = [fetched EXCEPT ![u] = r.fetched]
                      /\ created' = [created EXCEPT ![u] = r.created]
                      /\ get_file_result' =
                            [get_file_result EXCEPT ![u] = IF out = "" THEN "returned" ELSE out]
    /\ UNCHANGED <<re_download, mongo_document, mongo_metadata, mongo_file, mongo_result>>
    /\ UNCHANGED notDl

MongoDBIngestDoc_update_source_metadata ==
    /\ mongo_metadata' = IF mongo_document = "None" THEN "missing" ELSE "exists"
    /\ UNCHANGED <<re_download, local_file, source_metadata, downloads, get_file_calls,
                   get_file_result, hit_error, fetched, created,
                   mongo_document, mongo_file, mongo_result>>
    /\ UNCHANGED notDl

\* MongoDBIngestDoc.get_file: the decorated body is pass.
MongoDBIngestDoc_get_file ==
    /\ mongo_result' =
          IF skip_if_file_exists(re_download, mongo_file # "absent") THEN "returned"
          ELSE LET out == wrap("SourceConnectionError", "")
               IN  IF out = "" THEN "returned" ELSE out
    /\ UNCHANGED <<re_download, local_file, source_metadata, downloads, get_file_calls,
                   get_file_result, hit_error, fetched, created,
                   mongo_document, mongo_metadata, mongo_file>>
    /\ UNCHANGED notDl

\* What a run records for the docs it has called get_file on: a doc whose
\* get_file returned is a success, one whose get_file raised is a failure.
Attempted == { u \in Docs : get_file_calls[u] > 0 }
Successes == { u \in Attempted : get_file_result[u] = "returned" }
Failures == { u \in Attempted : get_file_result[u] # "returned" }

DownloadInit ==
    /\ re_download \in BOOLEAN
    /\ local_file = [u \in Docs |-> "absent"]
    /\ source_metadata = [u \in Docs |-> "unset"]
    /\ downloads = [u \in Docs |-> 0]
    /\ get_file_calls = [u \in Docs |-> 0]
    /\ get_file_result = [u \in Docs |-> ""]
    /\ hit_error = [u \in Docs |-> FALSE]
    /\ fetched = [u \in Docs |-> FALSE]
    /\ created = [u \in Docs |-> FALSE]
    /\ mongo_document \in {"None", "doc"}
    /\ mongo_metadata = "unset"
    /\ mongo_file \in {"absent", "content"}
    /\ mongo_result = ""
    /\ FileDataIdle
    /\ UploadIdle
    /\ ConnectorIdle
    /\ ConfigIdle
    /\ StagerIdle
    /\ WorkersIdle

DownloadNext ==
    \/ \E u \in Docs : OutlookIngestDoc_get_file(u)
    \/ MongoDBIngestDoc_update_source_metadata
    \/ MongoDBIngestDoc_get_file

DownloadSpec == DownloadInit /\ [][DownloadNext]_vars

(***************************************************************************)
(* C4: a doc whose download fails is never silently dropped: of the docs   *)
(* get_file was called on, exactly those that hit an error while fetching  *)
(* metadata or downloading are recorded as failures, the rest as successes.*)
(***************************************************************************)
C4_FailuresRecorded ==
    LET failed == { u \in Attempted : hit_error[u] }
    IN  /\ Failures = failed
        /\ Successes = Attempted \ failed

(***************************************************************************)
(* C5: for a doc whose source metadata says exists = false, get_file       *)
(* invokes no download and creates no local file.                          *)
(***************************************************************************)
C5_NoFetchWhenMissing ==
    \A u \in Docs : source_metadata[u] = "missing" => ~fetched[u] /\ ~created[u]

(***************************************************************************)
(* C6: with re-download off, a get_file step invokes the download only if  *)
(* the doc's local file did not exist before it; a get_file step on a doc  *)
(* whose file exists leaves the file as it is and invokes no download; so  *)
(* once a doc has its file, however many get_file calls were made, exactly *)
(* one download was invoked for it.                                        *)
(***************************************************************************)
C6_SkipIfExists ==
    /\ [][\A u \in Docs : ~re_download =>
            /\ downloads'[u] # downloads[u] => local_file[u] = "absent"
            /\ local_file[u] # "absent" =>
                  local_file'[u] = local_file[u] /\ downloads'[u] = downloads[u]]_vars
    /\ [](\A u \in Docs : ~re_download =>
            /\ downloads[u] <= 1
            /\ local_file[u] # "absent" => downloads[u] = 1)

\* get_file was called twice on a doc with re-download off: the first call
\* downloaded the file, the second found it and skipped.
C6_Witness ==
    \E u \in Docs :
        /\ ~re_download /\ get_file_calls[u] = 2
        /\ local_file[u] = "content" /\ downloads[u] = 1
        /\ ~fetched[u] /\ get_file_result[u] = "returned"

(***************************************************************************)
(* The connectors: MongoDBSourceConnector, MongoDBIngestDocBatch,          *)
(* MongoDBDestinationConnector and OutlookSourceConnector                  *)
(***************************************************************************)
MaxFactoryCalls == 2
MaxWritten == 2
MaxIds == 3

Elements == {"e1"}

\* A client property that builds a client on every access.
client_unmemoized(factory_ok) ==
    IF factory_ok
    THEN [client |-> factory_calls + 1, calls |-> factory_calls + 1, raised |-> ""]
    ELSE [client |-> _client, calls |-> factory_calls + 1, raised |-> "Exception"]

\* The client property of the three connectors: the factory (generate_client,
\* _get_client) is called when _client is None, and what it returns is kept.
\* The handle is numbered by the factory call that built it.
client(factory_ok) ==
    IF _client # 0
    THEN [client |-> _client, calls |-> factory_calls, raised |-> ""]
    ELSE IF factory_ok
         THEN [client |-> factory_calls + 1, calls |-> factory_calls + 1, raised |-> ""]
         ELSE [client |-> 0, calls |-> factory_calls + 1, raised |-> "Exception"]

\* An operation op of connector c that read the client property with result
\* acc and raised exc.
Accessed(c, op, acc, exc) ==
    /\ connector = c
    /\ _client # 0 \/ factory_calls < MaxFactoryCalls
    /\ _client' = acc.client
    /\ factory_calls' = acc.calls
    /\ handles_seen' = IF acc.raised = "" THEN handles_seen \cup {acc.client} ELSE handles_seen
    /\ conn_raised' = exc
    /\ conn_op' = op
    /\ UNCHANGED connector

\* An operation op of connector c that did not read the client property.
NotAccessed(c, op, exc) ==
    /\ connector = c
    /\ conn_raised' = exc
    /\ conn_op' = op
    /\ UNCHANGED <<connector, _client, factory_calls, handles_seen>>

\* try: self.client.admin.command("ping") except Exception: raise
\* DestinationConnectionError -- the check_connection of both MongoDB connectors.
mongodb_check_connection(c) ==
    \E factory_ok \in BOOLEAN, ping_ok \in BOOLEAN :
        LET acc == client(factory_ok)
        IN  Accessed(c, "check_connection", acc,
                     IF acc.raised # "" \/ ~ping_ok THEN "DestinationConnectionError" ELSE "")

\* initialize of both MongoDB connectors: _ = self.client
mongodb_initialize(c) ==
    \E factory_ok \in BOOLEAN :
        LET acc == client(factory_ok)
        IN  Accessed(c, "initialize", acc, acc.raised)

MongoDBSourceConnector_check_connection ==
    /\ mongodb_check_connection("mongodb_source")
    /\ UNCHANGED <<serialized, mongo_written, selected_folder_ids, mongo_batch_size,
                   ingest_batches, batch_clients, batch_docs, batch_files, doc_ids,
                   batch_result>>
    /\ UNCHANGED notCl

MongoDBSourceConnector_initialize ==
    /\ mongodb_initialize("mongodb_source")
    /\ UNCHANGED <<serialized, mongo_written, selected_folder_ids, mongo_batch_size,
                   ingest_batches, batch_clients, batch_docs, batch_files, doc_ids,
                   batch_result>>
    /\ UNCHANGED notCl

\* Slices for the full batches only.
id_batches_full(ids, B) ==
    [i \in 1..(Len(ids) \div B) |-> SubSeq(ids, (i - 1) * B + 1, i * B)]

\* get_ingest_docs, lines 215-225: the ids cut into slices of batch_size.
id_batches(ids, B) ==
    [i \in 1..((Len(ids) + B - 1) \div B) |->
        SubSeq(ids, (i - 1) * B + 1, Min(i * B, Len(ids)))]

\* A document id that ObjectId() rejects is written as a negative number.
MalformedId(id) == id < 0

\* The id lists that _get_doc_ids may return: ids 1..n in listing order, at
\* most one of them malformed.
IdLists ==
    UNION { { [i \in 1..n |-> IF i = bad THEN -i ELSE i] : bad \in 0..n } : n \in 0..MaxIds }

MongoDBSourceConnector_get_ingest_docs ==
    /\ \E factory_ok \in BOOLEAN, query_ok \in BOOLEAN :
          LET acc == client(factory_ok)
              ids == doc_ids
              ok == acc.raised = "" /\ query_ok
          IN  /\ Accessed("mongodb_source", "get_ingest_docs", acc,
                          IF ok THEN "" ELSE "Exception")
              /\ IF ok
                 THEN /\ ingest_batches' = id_batches(ids, mongo_batch_size)
                      /\ batch_docs' = [b \in DOMAIN id_batches(ids, mongo_batch_size) |-> <<>>]
                      /\ batch_result' = [b \in DOMAIN id_batches(ids, mongo_batch_size) |-> ""]
                 ELSE UNCHANGED <<ingest_batches, batch_docs, batch_result>>
    /\ UNCHANGED <<serialized, mongo_written, selected_folder_ids, mongo_batch_size,
                   batch_clients, batch_files, doc_ids>>
    /\ UNCHANGED notCl

\* The ids of a set of documents, in ascending order.
RECURSIVE Sorted(_)
Sorted(S) ==
    IF S = {} THEN <<>>
    ELSE LET m == CHOOSE a \in S : \A b \in S : a <= b
         IN  <<m>> \o Sorted(S \ {m})

\* MongoDBIngestDocBatch._get_docs: generate_client builds a client of the
\* batch's own, every id of list_of_ids is converted with ObjectId(x), which
\* raises InvalidId on a malformed one, and the documents of the converted
\* ids are queried.  What it raises, whether it built a client, and the ids
\* it queried.
get_docs(list_of_ids, factory_ok, query_ok) ==
    IF ~factory_ok THEN [client |-> FALSE, raised |-> "Exception", queried |-> {}]
    ELSE IF \E id \in Range(list_of_ids) : MalformedId(id)
    THEN [client |-> TRUE, raised |-> "InvalidId", queried |-> {}]
    ELSE IF ~query_ok THEN [client |-> TRUE, raised |-> "Exception", queried |-> {}]
    ELSE [client |-> TRUE, raised |-> "", queried |-> Range(list_of_ids)]

\* MongoDBIngestDocBatch.get_files: every document that _get_docs returned
\* (found: those queried, but for one that may have been deleted since the
\* listing) is written to its local file and appended to ingest_docs.
MongoDBIngestDocBatch_get_files(b) ==
    /\ batch_clients < MaxClients
    /\ connector = "mongodb_source"
    /\ \E factory_ok \in BOOLEAN, query_ok \in BOOLEAN :
          LET r == get_docs(ingest_batches[b], factory_ok, query_ok)
          IN  \E found \in {r.queried} \cup { r.queried \ {id} : id \in r.queried } :
                 /\ batch_clients' = IF r.client THEN batch_clients + 1 ELSE batch_clients
                 /\ batch_result' =
                       [batch_result EXCEPT ![b] = IF r.raised = "" THEN "returned"
                                                   ELSE r.raised]
                 /\ IF r.raised = ""
                    THEN /\ batch_docs' = [batch_docs EXCEPT ![b] = @ \o Sorted(found)]
                         /\ batch_files' = batch_files \cup found
                    ELSE UNCHANGED <<batch_docs, batch_files>>
    /\ conn_op' = "get_files"
    /\ UNCHANGED <<connector, _client, factory_calls, handles_seen, conn_raised,
                   serialized, mongo_written, selected_folder_ids, mongo_batch_size,
                   ingest_batches, doc_ids>>
    /\ UNCHANGED notCl

MongoDBDestinationConnector_check_connection ==
    /\ mongodb_check_connection("mongodb_destination")
    /\ UNCHANGED <<serialized, mongo_written, selected_folder_ids, mongo_batch_size,
                   ingest_batches, batch_clients, batch_docs, batch_files, doc_ids,
                   batch_result>>
    /\ UNCHANGED notCl

MongoDBDestinationConnector_initialize ==
    /\ mongodb_initialize("mongodb_destination")
    /\ UNCHANGED <<serialized, mongo_written, selected_folder_ids, mongo_batch_size,
                   ingest_batches, batch_clients, batch_docs, batch_files, doc_ids,
                   batch_result>>
    /\ UNCHANGED notCl

\* A to_dict that clears _client on the connector itself instead of on a copy.
to_dict_in_place ==
    /\ config # None /\ config[1].cls = "SimpleMongoDBConfig"
    /\ \E kwargs \in ToDictKwargs :
          serialized' = Some(_asdict([cls |-> "MongoDBDestinationConnector",
                                      connector_config |-> config[1], _client |-> 0], kwargs))
    /\ connector = "mongodb_destination"
    /\ _client' = 0
    /\ conn_raised' = ""
    /\ conn_op' = "to_dict"
    /\ UNCHANGED <<connector, factory_calls, handles_seen>>
    /\ UNCHANGED <<mongo_written, selected_folder_ids, mongo_batch_size,
                   ingest_batches, batch_clients, batch_docs, batch_files, doc_ids,
                   batch_result>>
    /\ UNCHANGED notCl

\* to_dict: a shallow copy of the connector, _client set to None on the copy,
\* and the copy given to _asdict with the caller's keyword arguments.
MongoDBDestinationConnector_to_dict ==
    /\ config # None /\ config[1].cls = "SimpleMongoDBConfig"
    /\ \E kwargs \in ToDictKwargs :
          LET self == [cls |-> "MongoDBDestinationConnector",
                       connector_config |-> config[1],
                       _client |-> _client]
              self_cp == [self EXCEPT !._client = 0]
          IN  serialized' = Some(_asdict(self_cp, kwargs))
    /\ NotAccessed("mongodb_destination", "to_dict", "")
    /\ UNCHANGED <<mongo_written, selected_folder_ids, mongo_batch_size,
                   ingest_batches, batch_clients, batch_docs, batch_files, doc_ids,
                   batch_result>>
    /\ UNCHANGED notCl

\* write_dict: collection.insert_many(elements_dict); a failure is raised as
\* WriteError.  insert_many adds the documents to those already there.
MongoDBDestinationConnector_write_dict ==
    /\ \E elements_dict \in SeqsUpTo(Elements, MaxWritten) \ {<<>>},
          factory_ok \in BOOLEAN, insert_ok \in BOOLEAN :
          LET acc == client(factory_ok)
          IN  /\ Len(mongo_written) + Len(elements_dict) <= MaxWritten
              /\ IF acc.raised # ""
                 THEN /\ Accessed("mongodb_destination", "write_dict", acc, acc.raised)
                      /\ UNCHANGED mongo_written
                 ELSE /\ Accessed("mongodb_destination", "write_dict", acc,
                                  IF insert_ok THEN "" ELSE "WriteError")
                      /\ mongo_written' =
                            IF insert_ok THEN mongo_written \o elements_dict ELSE mongo_written
    /\ UNCHANGED <<serialized, selected_folder_ids, mongo_batch_size,
                   ingest_batches, batch_clients, batch_docs, batch_files, doc_ids,
                   batch_result>>
    /\ UNCHANGED notCl

\* get_folder_ids on the outcome of its queries: "ok" (folders of the
\* requested names were found), "none" (no such folder: MissingFolderError)
\* or "error" (a query failed).  What it raises and what it leaves in
\* selected_folder_ids.
get_folder_ids(acc, outcome) ==
    IF acc.raised # "" THEN [raised |-> acc.raised, selected |-> selected_folder_ids]
    ELSE CASE outcome = "ok"   -> [raised |-> "", selected |-> "some"]
           [] outcome = "none" -> [raised |-> "MissingFolderError", selected |-> "empty"]
           [] OTHER            -> [raised |-> "ClientRequestException",
                                   selected |-> selected_folder_ids]

OutlookSourceConnector_get_folder_ids ==
    /\ \E factory_ok \in BOOLEAN, outcome \in {"ok", "none", "error"} :
          LET acc == client(factory_ok)
              r == get_folder_ids(acc, outcome)
          IN  /\ Accessed("outlook_source", "get_folder_ids", acc, r.raised)
              /\ selected_folder_ids' = r.selected
    /\ UNCHANGED <<serialized, mongo_written, mongo_batch_size,
                   ingest_batches, batch_clients, batch_docs, batch_files, doc_ids,
                   batch_result>>
    /\ UNCHANGED notCl

\* initialize: get_folder_ids in a try; any exception is raised as
\* SourceConnectionError.
OutlookSourceConnector_initialize ==
    /\ \E factory_ok \in BOOLEAN, outcome \in {"ok", "none", "error"} :
          LET acc == client(factory_ok)
              r == get_folder_ids(acc, outcome)
          IN  /\ Accessed("outlook_source", "initialize", acc,
                          IF r.raised # "" THEN "SourceConnectionError" ELSE "")
              /\ selected_folder_ids' = r.selected
    /\ UNCHANGED <<serialized, mongo_written, mongo_batch_size,
                   ingest_batches, batch_clients, batch_docs, batch_files, doc_ids,
                   batch_result>>
    /\ UNCHANGED notCl

\* check_connection: _ = self.client in a try; any exception is raised as
\* SourceConnectionError.
OutlookSourceConnector_check_connection ==
    /\ \E factory_ok \in BOOLEAN :
          LET acc == client(factory_ok)
          IN  Accessed("outlook_source", "check_connection", acc,
                       IF acc.raised # "" THEN "SourceConnectionError" ELSE "")
    /\ UNCHANGED <<serialized, mongo_written, selected_folder_ids, mongo_batch_size,
                   ingest_batches, batch_clients, batch_docs, batch_files, doc_ids,
                   batch_result>>
    /\ UNCHANGED notCl

\* get_ingest_docs: one messages query through self.client per selected
\* folder; without selected_folder_ids the loop raises AttributeError, and
\* with none selected the client is not read.
OutlookSourceConnector_get_ingest_docs ==
    /\ CASE selected_folder_ids = "unset" ->
                NotAccessed("outlook_source", "get_ingest_docs", "AttributeError")
         [] selected_folder_ids = "empty" ->
                NotAccessed("outlook_source", "get_ingest_docs", "")
         [] OTHER ->
                \E factory_ok \in BOOLEAN, query_ok \in BOOLEAN :
                    LET acc == client(factory_ok)
                    IN  Accessed("outlook_source", "get_ingest_docs", acc,
                                 IF acc.raised # "" THEN acc.raised
                                 ELSE IF query_ok THEN "" ELSE "ClientRequestException")
    /\ UNCHANGED <<serialized, mongo_written, selected_folder_ids, mongo_batch_size,
                   ingest_batches, batch_clients, batch_docs, batch_files, doc_ids,
                   batch_result>>
    /\ UNCHANGED notCl

Init ==
    /\ connector \in Connectors
    /\ _client = 0
    /\ factory_calls = 0
    /\ handles_seen = {}
    /\ conn_raised = ""
    /\ conn_op = ""
    /\ serialized = None
    /\ mongo_written = <<>>
    /\ selected_folder_ids = "unset"
    /\ mongo_batch_size \in 1..MaxBatchSize
    /\ ingest_batches = <<>>
    /\ batch_clients = 0
    /\ batch_docs = <<>>
    /\ batch_files = {}
    /\ doc_ids \in IF connector = "mongodb_source" THEN IdLists ELSE {<<>>}
    /\ batch_result = <<>>
    /\ FileDataIdle
    /\ UploadIdle
    /\ DownloadIdle
    /\ ConfigIdle
    /\ StagerIdle
    /\ WorkersIdle

Next ==
    \/ MongoDBSourceConnector_check_connection
    \/ MongoDBSourceConnector_initialize
    \/ MongoDBSourceConnector_get_ingest_docs
    \/ MongoDBDestinationConnector_check_connection
    \/ MongoDBDestinationConnector_initialize
    \/ MongoDBDestinationConnector_to_dict
    \/ MongoDBDestinationConnector_write_dict
    \/ OutlookSourceConnector_get_folder_ids
    \/ OutlookSourceConnector_initialize
    \/ OutlookSourceConnector_check_connection
    \/ OutlookSourceConnector_get_ingest_docs

Spec == Init /\ [][Next]_vars

(***************************************************************************)
(* The MongoDB source at work: the connector lists the ids and cuts them   *)
(* into batches, and each batch fetches its documents.                     *)
(***************************************************************************)
BatchInit ==
    /\ Init
    /\ connector = "mongodb_source"

BatchNext ==
    \/ MongoDBSourceConnector_get_ingest_docs
    \/ \E b \in DOMAIN ingest_batches : MongoDBIngestDocBatch_get_files(b)

BatchSpec == BatchInit /\ [][BatchNext]_vars

(***************************************************************************)
(* C7 (as stated): no client exists before the first access to the client  *)
(* property, and over any series of operations on one connector the client *)
(* factory is called at most once and every access returns the same        *)
(* handle.                                                                 *)
(***************************************************************************)
C7_FactoryCalledAtMostOnce ==
    /\ conn_op = "" => _client = 0 /\ factory_calls = 0
    /\ factory_calls <= 1
    /\ Cardinality(handles_seen) <= 1

(***************************************************************************)
(* C7 (amended): no client exists before the first access to the client    *)
(* property; over any series of operations on one connector every access   *)
(* that returns yields the same handle, the one kept in _client, and once  *)
(* the factory has returned a handle it is not called again (a factory     *)
(* call that raises leaves _client None, so the next access calls the      *)
(* factory again).                                                         *)
(***************************************************************************)
C7_ClientMemoized ==
    /\ [](conn_op = "" => _client = 0 /\ factory_calls = 0)
    /\ [](Cardinality(handles_seen) <= 1)
    /\ [](handles_seen = IF _client = 0 THEN {} ELSE {_client})
    /\ [][_client # 0 => _client' = _client /\ factory_calls' = factory_calls]_vars

\* Two write_dict calls on one destination connector went through the handle
\* that the single factory call returned.
C7_Witness ==
    /\ connector = "mongodb_destination"
    /\ conn_op = "write_dict" /\ conn_raised = ""
    /\ Len(mongo_written) = 2
    /\ factory_calls = 1 /\ _client = 1 /\ handles_seen = {1}

(***************************************************************************)
(* C8: over any sequence of precheck and run calls on one ChromaUploader,  *)
(* and over all batches of one MongoDBSourceConnector fetching their       *)
(* documents, at most one vendor client is created in total.               *)
(***************************************************************************)
C8_OneClientPerInstance ==
    /\ chroma_clients <= 1
    /\ batch_clients <= 1

(***************************************************************************)
(* C9: the dict that MongoDBDestinationConnector.to_dict returns has       *)
(* _client null, whether or not the connector has a client; to_dict leaves *)
(* the connector's own _client as it is and calls no factory, and the      *)
(* connector keeps its handle afterwards.                                  *)
(***************************************************************************)
C9_ToDictNullsClient ==
    /\ [](conn_op = "to_dict" => serialized # None /\ serialized[1]._client = 0)
    /\ [][conn_op' = "to_dict" =>
            /\ _client' = _client
            /\ factory_calls' = factory_calls
            /\ handles_seen' = handles_seen]_vars
    /\ [][(conn_op = "to_dict" /\ _client # 0) => _client' = _client]_vars

\* A destination connector that holds a client has been serialized.
C9_Witness ==
    /\ connector = "mongodb_destination"
    /\ conn_op = "to_dict"
    /\ _client # 0
    /\ serialized # None /\ serialized[1]._client = 0

(***************************************************************************)
(* C10: the connectivity check of a source connector (check_connection of  *)
(* MongoDBSourceConnector and OutlookSourceConnector, and                  *)
(* OutlookSourceConnector.initialize) raises every failure as              *)
(* SourceConnectionError.                                                  *)
(***************************************************************************)
C10_SourceConnectionError ==
    ( /\ connector \in {"mongodb_source", "outlook_source"}
      /\ \/ conn_op = "check_connection"
         \/ connector = "outlook_source" /\ conn_op = "initialize"
      /\ conn_raised # "" )
    => conn_raised = "SourceConnectionError"

(***************************************************************************)
(* Construction of the configurations and their to_dict                    *)
(***************************************************************************)
Unconstructed == config = None /\ config_raised = ""

SimpleMongoDBConfig_init ==
    /\ Unconstructed
    /\ \E uri \in {None} \cup { Some(u) : u \in Secrets }, host \in Hosts :
          config' = Some(SimpleMongoDBConfig(MongoDBAccessConfig(uri), Some(host)))
    /\ UNCHANGED <<existing_files, config_raised, config_dict, gcs_key>>
    /\ UNCHANGED notCf

SimpleOutlookConfig_init ==
    /\ Unconstructed
    /\ \E client_credential \in {""} \cup Secrets, user_email \in {"", "user@example.com"} :
          LET cfg == SimpleOutlookConfig(OutlookAccessConfig(client_credential),
                                         user_email, "client-id")
              exc == SimpleOutlookConfig_post_init(cfg)
          IN  /\ config' = IF exc = "" THEN Some(cfg) ELSE None
              /\ config_raised' = exc
    /\ UNCHANGED <<existing_files, config_dict, gcs_key>>
    /\ UNCHANGED notCf

ChromaConnectionConfig_init ==
    /\ Unconstructed
    /\ \E settings \in {None} \cup { Some(u) : u \in Secrets },
          headers \in {None} \cup { Some(u) : u \in Secrets }, host \in Hosts :
          config' = Some(ChromaConnectionConfig("elements",
                                                ChromaAccessConfig(settings, headers),
                                                Some(host)))
    /\ UNCHANGED <<existing_files, config_raised, config_dict, gcs_key>>
    /\ UNCHANGED notCf

\* GcsConnectionConfig(access_config=GcsAccessConfig(service_account_key=...))
GcsConnectionConfig_init ==
    /\ Unconstructed
    /\ \E service_account_key \in ServiceAccountKeys :
          LET r == GcsAccessConfig_post_init(service_account_key, existing_files)
          IN  /\ gcs_key' = Some(service_account_key)
              /\ config_raised' = r.raised
              /\ config' = IF r.raised = ""
                           THEN Some(GcsConnectionConfig(
                                        GcsAccessConfig(service_account_key, r.token)))
                           ELSE None
    /\ UNCHANGED <<existing_files, config_dict>>
    /\ UNCHANGED notCf

\* to_dict of the configuration constructed.
ConnectionConfig_to_dict ==
    /\ config # None
    /\ \E kwargs \in ToDictKwargs : config_dict' = Some(_asdict(config[1], kwargs))
    /\ UNCHANGED <<existing_files, config, config_raised, gcs_key>>
    /\ UNCHANGED notCf

ConfigInit ==
    /\ existing_files \in SUBSET FilePaths
    /\ config = None
    /\ config_raised = ""
    /\ config_dict = None
    /\ gcs_key = None
    /\ StagerIdle
    /\ WorkersIdle
    /\ ConnectorAt("mongodb_destination")
    /\ FileDataIdle
    /\ UploadIdle
    /\ DownloadIdle

ConfigNext ==
    \/ SimpleMongoDBConfig_init
    \/ SimpleOutlookConfig_init
    \/ ChromaConnectionConfig_init
    \/ GcsConnectionConfig_init
    \/ ConnectionConfig_to_dict
    \/ MongoDBDestinationConnector_to_dict

ConfigSpec == ConfigInit /\ [][ConfigNext]_vars

\* The configurations that differ from cfg in the values of its secrets only.
SecretVariants(cfg) ==
    CASE cfg.cls = "SimpleMongoDBConfig" ->
            IF cfg.access_config.uri = None THEN {cfg}
            ELSE { [cfg EXCEPT !.access_config.uri = Some(u)] : u \in Secrets }
      [] cfg.cls = "SimpleOutlookConfig" ->
            { [cfg EXCEPT !.access_config.client_credential = u] : u \in Secrets }
      [] cfg.cls = "ChromaConnectionConfig" ->
            { [cfg EXCEPT !.access_config.settings = st, !.access_config.headers = hd] :
                st \in IF cfg.access_config.settings = None THEN {None}
                       ELSE { Some(u) : u \in Secrets },
                hd \in IF cfg.access_config.headers = None THEN {None}
                       ELSE { Some(u) : u \in Secrets } }
      [] OTHER ->
            IF cfg.access_config.service_account_key = None
               \/ cfg.access_config.service_account_key[1] \notin JsonObjectKeys
            THEN {cfg}
            ELSE { GcsConnectionConfig(
                      GcsAccessConfig(Some(k),
                                      GcsAccessConfig_post_init(Some(k), existing_files).token)) :
                   k \in JsonObjectKeys }

(***************************************************************************)
(* C12: the serialized form of a configuration, and of the MongoDB         *)
(* destination connector holding it, is the same for every configuration   *)
(* that differs from it in its secret values only (MongoDB uri, Outlook    *)
(* client_credential, Chroma settings and headers, GCS service_account_key *)
(* and token), whatever keyword arguments to_dict is given.                *)
(***************************************************************************)
C12_SecretsNotSerialized ==
    /\ config_dict # None =>
          \E kwargs \in ToDictKwargs :
             \A other \in SecretVariants(config[1]) : _asdict(other, kwargs) = config_dict[1]
    /\ (serialized # None /\ config # None) =>
          \E kwargs \in ToDictKwargs :
             \A other \in SecretVariants(config[1]) :
                _asdict([cls |-> "MongoDBDestinationConnector",
                         connector_config |-> other, _client |-> 0], kwargs) = serialized[1]

\* A MongoDB configuration that holds a uri has been serialized, by itself
\* and within its connector.
C12_Witness ==
    /\ config # None /\ config[1].cls = "SimpleMongoDBConfig"
    /\ config[1].access_config.uri = Some("secret1")
    /\ config_dict # None /\ config_dict[1].access_config.uri = REDACTED
    /\ serialized # None /\ serialized[1].connector_config.access_config.uri = REDACTED

(***************************************************************************)
(* C18: constructing GcsAccessConfig resolves token from                   *)
(* service_account_key by the first case that matches, in this order: an   *)
(* empty or None key leaves token None; one of the five auth constants     *)
(* sets token to that string; a key that parses as a JSON object sets      *)
(* token to the parsed dict; a key naming an existing file sets token to   *)
(* the path string; any other key raises ValueError.  After a successful   *)
(* construction token is None exactly when the key is empty or None.       *)
(***************************************************************************)
C18_TokenResolution ==
    gcs_key # None =>
        LET service_account_key == gcs_key[1]
            empty == service_account_key = None \/ service_account_key[1] = ""
            key == IF empty THEN "" ELSE service_account_key[1]
            constructed == config_raised = "" /\ config # None
            token == config[1].access_config.token
        IN  /\ CASE empty -> constructed /\ token = None
                 [] ~empty /\ key \in ALLOWED_AUTH_VALUES ->
                        constructed /\ token = Some([t |-> "str", of |-> key])
                 [] ~empty /\ key \notin ALLOWED_AUTH_VALUES /\ key \in JsonObjectKeys ->
                        constructed /\ token = Some([t |-> "dict", of |-> key])
                 [] ~empty /\ key \notin ALLOWED_AUTH_VALUES /\ key \notin JsonObjectKeys
                    /\ key \in existing_files ->
                        constructed /\ token = Some([t |-> "str", of |-> key])
                 [] OTHER -> config_raised = "ValueError" /\ config = None
            /\ constructed => (token = None <=> empty)
            /\ constructed => config[1].access_config.service_account_key = service_account_key

\* A key that parses as a JSON object, and that also names an existing file,
\* was resolved to the parsed dict.
C18_Witness ==
    /\ gcs_key # None /\ gcs_key[1] # None
    /\ gcs_key[1][1] \in JsonObjectKeys /\ gcs_key[1][1] \in existing_files
    /\ config # None /\ config[1].access_config.token = Some([t |-> "dict", of |-> gcs_key[1][1]])

(***************************************************************************)
(* ChromaUploadStager: conform_dict and run.  An element record has an     *)
(* element_id, a text and embeddings, each of which may be absent (None),  *)
(* and a type.  The staged files are written to directories other than    *)
(* the one that holds the elements file.                                   *)
(***************************************************************************)
MaxElements == 2
MaxStageRuns == 2

ElementValues ==
    [element_id : {None, Some("e1")}, text : {None, Some("hello")},
     embeddings : {Some("vec")}, type : {"Title"}]

\* What uuid.uuid4() may return.
Uuids == {"uuid-a", "uuid-b"}

ExistingDirs == {"work", "staged", "/"}
OutputDirs == {"staged", "missing"}
OutputFilenames == {"abc", "/abs"}

\* utils.data_prep.flatten_dict(data, remove_none=True) on what conform_dict
\* has left in data: the keys but embeddings and text, those of value None dropped.
flatten_dict(data) == [element_id |-> data.element_id, type |-> data.type]

\* conform_dict(data), uuid being what uuid.uuid4() returned.
conform_dict(data, uuid) ==
    [id |-> IF data.element_id # None THEN data.element_id[1] ELSE uuid,
     embedding |-> data.embeddings,
     document |-> data.text,
     metadata |-> flatten_dict(data)]

\* json.dump of a list of records to a file, and json.load of the file.
json_dump_list(records) == [format |-> "json", array |-> records]
json_load_list(content) == content.array

IsAbsolute(path) == path \in {"/abs", "/abs.json"}

\* The directory a path lies in.
Parent(output_dir, path) == IF IsAbsolute(path) THEN "/" ELSE output_dir

\* An output path that leaves the directory out.
output_path_no_dir(output_dir, output_filename) == output_filename \o ".json"

\* Path(output_dir) / Path(f"{output_filename}.json"): joining an absolute
\* path drops what is to its left.
output_path(output_dir, output_filename) ==
    IF IsAbsolute(output_filename \o ".json") THEN output_filename \o ".json"
    ELSE output_dir \o "/" \o output_filename \o ".json"

ChromaUploadStager_run ==
    /\ Len(stage_runs) < MaxStageRuns
    /\ LET elements == json_load_list(fs[stage_args.elements_filepath])
           out == output_path(stage_args.output_dir, stage_args.output_filename)
       IN  \E uuids \in [DOMAIN elements -> Uuids] :
              LET conformed_elements ==
                      [i \in DOMAIN elements |-> conform_dict(elements[i], uuids[i])]
              IN  IF Parent(stage_args.output_dir, out) \in ExistingDirs
                  THEN /\ fs' = (out :> json_dump_list(conformed_elements)) @@ fs
                       /\ stage_runs' = Append(stage_runs,
                              [raised |-> "", returned |-> Some(out),
                               output |-> conformed_elements])
                  ELSE /\ fs' = fs
                       /\ stage_runs' = Append(stage_runs,
                              [raised |-> "FileNotFoundError", returned |-> None,
                               output |-> <<>>])
    /\ UNCHANGED <<elements_contents, stage_args>>
    /\ UNCHANGED notSt

StagerInit ==
    /\ elements_contents \in SeqsUpTo(ElementValues, MaxElements)
    /\ stage_args \in [elements_filepath : {"work/elements.json"}, output_dir : OutputDirs,
                       output_filename : OutputFilenames]
    /\ fs = (stage_args.elements_filepath :> json_dump_list(elements_contents))
    /\ stage_runs = <<>>
    /\ FileDataIdle
    /\ UploadIdle
    /\ DownloadIdle
    /\ ConnectorIdle
    /\ ConfigIdle
    /\ WorkersIdle

StagerNext == ChromaUploadStager_run

StagerSpec == StagerInit /\ [][StagerNext]_vars

(***************************************************************************)
(* C13: ChromaUploadStager.run is deterministic: two runs on the same      *)
(* elements file produce the same staged output, also for element records  *)
(* without element_id; the output holds one record per input element, in   *)
(* input order, and the elements file is left as it was.                   *)
(***************************************************************************)
C13_StagerDeterministic ==
    /\ \A i, j \in DOMAIN stage_runs : stage_runs[i].output = stage_runs[j].output
    /\ \A i \in DOMAIN stage_runs :
          stage_runs[i].raised = "" =>
             /\ Len(stage_runs[i].output) = Len(elements_contents)
             /\ \A k \in DOMAIN elements_contents :
                   /\ stage_runs[i].output[k].document = elements_contents[k].text
                   /\ stage_runs[i].output[k].embedding = elements_contents[k].embeddings
    /\ fs[stage_args.elements_filepath] = json_dump_list(elements_contents)

(***************************************************************************)
(* C14 (as stated): run writes its result to exactly the path              *)
(* output_dir/output_filename and returns that path; no other file is      *)
(* created or modified.                                                    *)
(***************************************************************************)
C14_WritesOutputFilename ==
    \A i \in DOMAIN stage_runs :
        stage_runs[i].raised = "" =>
           LET out == stage_args.output_dir \o "/" \o stage_args.output_filename
           IN  /\ stage_runs[i].returned = Some(out)
               /\ DOMAIN fs = {stage_args.elements_filepath, out}

(***************************************************************************)
(* C14 (amended): a run that returns has written its result to exactly     *)
(* the path Path(output_dir) / (output_filename + ".json"), which is       *)
(* output_dir/output_filename.json for a relative output_filename, and     *)
(* returns that path; no other file is created or modified.  A run whose   *)
(* output directory does not exist raises and writes nothing.              *)
(***************************************************************************)
C14_WritesOutputPath ==
    /\ \A i \in DOMAIN stage_runs :
          LET name == stage_args.output_filename \o ".json"
              out == IF IsAbsolute(name) THEN name
                     ELSE stage_args.output_dir \o "/" \o name
          IN  IF stage_runs[i].raised = ""
              THEN /\ stage_runs[i].returned = Some(out)
                   /\ DOMAIN fs = {stage_args.elements_filepath, out}
                   /\ fs[out] = json_dump_list(stage_runs[Len(stage_runs)].output)
              ELSE /\ stage_runs[i].returned = None
                   /\ DOMAIN fs = {stage_args.elements_filepath}
    /\ fs[stage_args.elements_filepath] = json_dump_list(elements_contents)
    /\ stage_runs = <<>> => DOMAIN fs = {stage_args.elements_filepath}

\* A run on two elements with a relative output_filename returned
\* staged/abc.json, the one file it wrote.
C14_Witness ==
    /\ Len(stage_runs) >= 1 /\ Len(elements_contents) = 2
    /\ stage_runs[1].returned = Some("staged/abc.json")
    /\ "staged/abc.json" \in DOMAIN fs
    /\ Len(fs["staged/abc.json"].array) = 2

(***************************************************************************)
(* A destination at work: either the Chroma uploader, or the MongoDB       *)
(* destination connector writing with write_dict.                          *)
(***************************************************************************)
DestinationInit ==
    \/ UploadInit
    \/ /\ UploadIdle
       /\ ConnectorAt("mongodb_destination")
       /\ FileDataIdle
       /\ DownloadIdle
       /\ ConfigIdle
       /\ StagerIdle
    /\ WorkersIdle

DestinationNext ==
    \/ ChromaUploader_precheck
    \/ ChromaUploader_run
    \/ MongoDBDestinationConnector_write_dict

DestinationSpec == DestinationInit /\ [][DestinationNext]_vars

(***************************************************************************)
(* C15: ChromaUploader.run is idempotent: after a run that returns, the    *)
(* collection holds exactly one entry per staged record id, and running    *)
(* again on the same staged files leaves the collection as it was; each    *)
(* write_dict of the MongoDB destination that returns adds its records to  *)
(* those already written, so writing the same records again duplicates     *)
(* them.                                                                   *)
(***************************************************************************)
C15_UpsertIdempotent ==
    /\ []((chroma_op = "run" /\ chroma_raised = "") =>
            collection = run_elements_dict(run_contents))
    /\ [][(chroma_op' = "run" /\ chroma_raised' = "" /\ chroma_runs >= 1) =>
            collection' = collection]_vars
    /\ [][(clVars' # clVars /\ conn_op' = "write_dict" /\ conn_raised' = "") =>
            /\ Len(mongo_written') > Len(mongo_written)
            /\ SubSeq(mongo_written', 1, Len(mongo_written)) = mongo_written]_vars

\* Three staged records have been uploaded twice in batches of two.
C15_Witness ==
    /\ chroma_op = "run" /\ chroma_raised = "" /\ chroma_runs = 2
    /\ batch_size = 2 /\ Len(collection) = 3

RECURSIVE Concat(_)
Concat(lists) == IF lists = <<>> THEN <<>> ELSE Head(lists) \o Concat(Tail(lists))

(***************************************************************************)
(* C16: get_ingest_docs on N listed ids and batch_size B >= 1 returns      *)
(* ceil(N/B) batches, none empty and none larger than B, whose             *)
(* list_of_ids concatenated in order are the listed ids; N = 0 returns an  *)
(* empty list without error; a later call returns fresh batches, with      *)
(* nothing fetched yet, whatever the batches of an earlier call have done. *)
(***************************************************************************)
C16_BatchesFollowListing ==
    (conn_op = "get_ingest_docs" /\ conn_raised = "") =>
        LET N == Len(doc_ids)
            B == mongo_batch_size
        IN  /\ Len(ingest_batches) = (N + B - 1) \div B
            /\ \A b \in DOMAIN ingest_batches :
                  Len(ingest_batches[b]) >= 1 /\ Len(ingest_batches[b]) <= B
            /\ Concat(ingest_batches) = doc_ids
            /\ N = 0 => ingest_batches = <<>>
            /\ DOMAIN batch_docs = DOMAIN ingest_batches
            /\ \A b \in DOMAIN batch_docs : batch_docs[b] = <<>> /\ batch_result[b] = ""

\* Three ids were listed again in batches of two, after a batch of an
\* earlier listing had fetched its documents.
C16_Witness ==
    /\ conn_op = "get_ingest_docs" /\ conn_raised = ""
    /\ Len(doc_ids) = 3 /\ mongo_batch_size = 2
    /\ Len(ingest_batches) = 2 /\ Len(ingest_batches[2]) = 1
    /\ batch_files # {}

(***************************************************************************)
(* C17: when get_files processes a batch whose list_of_ids holds a         *)
(* malformed id together with valid ids (and its client and query work),   *)
(* the documents of the valid ids are still fetched, written to their      *)
(* local files and appended to ingest_docs.                                *)
(***************************************************************************)
C17_MalformedIdIsolated ==
    \A b \in DOMAIN batch_result :
        LET valid == { id \in Range(ingest_batches[b]) : ~MalformedId(id) }
        IN  ( /\ batch_result[b] \notin {"", "Exception"}
              /\ valid # {}
              /\ valid # Range(ingest_batches[b]) )
            => /\ batch_result[b] = "returned"
               /\ Range(batch_docs[b]) \cap valid # {}
               /\ batch_files \cap valid # {}

(***************************************************************************)
(* Worker units that read the client property of one connector instance    *)
(* at the same time.  The property takes no lock, so its steps interleave: *)
(* the test of _client, the factory call, the assignment to _client and    *)
(* the read of _client that is returned.                                   *)
(***************************************************************************)
WorkerStep(w, to) ==
    /\ pc' = [pc EXCEPT ![w] = to]
    /\ UNCHANGED <<connector, handles_seen, conn_raised, conn_op, serialized, mongo_written,
                   selected_folder_ids, mongo_batch_size, ingest_batches, batch_clients,
                   batch_docs, batch_files, doc_ids, batch_result>>
    /\ UNCHANGED <<fdVars, upVars, dlVars, cfVars, stVars>>

\* if self._client is None:
client_test(w) ==
    /\ pc[w] = "idle"
    /\ WorkerStep(w, IF _client = 0 THEN "call" ELSE "return")
    /\ UNCHANGED <<_client, factory_calls, new_client, got>>

\* self.connector_config.generate_client(), or _get_client()
client_call(w) ==
    /\ pc[w] = "call"
    /\ \E factory_ok \in BOOLEAN :
          IF factory_ok
          THEN /\ new_client' = [new_client EXCEPT ![w] = factory_calls + 1]
               /\ WorkerStep(w, "assign")
          ELSE /\ UNCHANGED new_client
               /\ WorkerStep(w, "raised")
    /\ factory_calls' = factory_calls + 1
    /\ UNCHANGED <<_client, got>>

\* self._client = <the client built>
client_assign(w) ==
    /\ pc[w] = "assign"
    /\ _client' = new_client[w]
    /\ WorkerStep(w, "return")
    /\ UNCHANGED <<factory_calls, new_client, got>>

\* return self._client
client_return(w) ==
    /\ pc[w] = "return"
    /\ got' = [got EXCEPT ![w] = _client]
    /\ WorkerStep(w, "done")
    /\ UNCHANGED <<_client, factory_calls, new_client>>

WorkersInit ==
    /\ pc = [w \in Workers |-> "idle"]
    /\ new_client = [w \in Workers |-> 0]
    /\ got = [w \in Workers |-> 0]
    /\ \E c \in Connectors : ConnectorAt(c)
    /\ FileDataIdle
    /\ UploadIdle
    /\ DownloadIdle
    /\ ConfigIdle
    /\ StagerIdle

WorkersNext ==
    \E w \in Workers :
        \/ client_test(w)
        \/ client_call(w)
        \/ client_assign(w)
        \/ client_return(w)

WorkersSpec == WorkersInit /\ [][WorkersNext]_vars

(***************************************************************************)
(* C19: when several worker units read the client property of one          *)
(* connector instance at the same time, in any interleaving of the test    *)
(* of _client and the assignment, at most one vendor client is built and   *)
(* every unit gets the same handle.                                        *)
(***************************************************************************)
C19_OneClientUnderConcurrency ==
    /\ Cardinality({ w \in Workers : new_client[w] # 0 }) <= 1
    /\ \A v, w \in Workers : (pc[v] = "done" /\ pc[w] = "done") => got[v] = got[w]

====
